---- MODULE Spec2Model ----
(***************************************************************************)
(* Model of the discovery-and-monitoring engine of NetworkController       *)
(* (src/network_controller.py): construction and the configuration file,   *)
(* _ping, the threaded ping sweep, the device-type classification, the     *)
(* fingerprinting of one device, the device registry written by the        *)
(* monitoring loop and by discover_network, the alerts for new devices,    *)
(* the readers of the registry, and the JSON persistence of the registry.  *)
(*                                                                         *)
(* Addresses are the integers 1..NumAddrs, in the order IPNetwork yields   *)
(* them; str(ip) is injective, so an address stands for its string.        *)
(***************************************************************************)
EXTENDS Integers, Sequences, FiniteSets, TLC

(***************************************************************************)
(* Bounds                                                                  *)
(***************************************************************************)
NumAddrs == 3          \* addresses of the swept subnet
MaxCap == 2            \* config["max_threads"] ranges over 1..MaxCap
NumHosts == 2          \* addresses of the default subnet of the registry
MaxClock == 1          \* datetime.now() ranges over 0..MaxClock

Network == 1..NumAddrs
Subnet == 1..NumHosts
\* the _monitoring_loop threads: start_monitoring creates one per call
Loops == {1, 2}
SweepIds == {"discover", "monitor"}   \* the two callers of _ping_sweep

VARIABLES
    max_threads,    \* self.config["max_threads"]
    reach,          \* the outcome of _ping per address during the sweeps
    swPc,           \* position of each _ping_sweep call
    swIdx,          \* next address of `for ip in network`
    threads,        \* the local list `threads` of each call
    swJoin,         \* position inside `for t in threads: t.join()`
    thr,            \* state of the ping_host thread of each address
    active_hosts,   \* the local list `active_hosts` of each call
    pingRes         \* what _ping returned for each address in each call

sweepVars == <<max_threads, reach, swPc, swIdx, threads, swJoin, thr,
               active_hosts, pingRes>>

VARIABLES
    device_info,    \* the argument of _detect_device_type
    device_type     \* the value it returned ("unset" before the call)

classifyVars == <<device_info, device_type>>

VARIABLES
    devices,            \* self.devices: address -> record
    clock,              \* datetime.now()
    monitoring_active,  \* self.monitoring_active
    lp,                 \* the _monitoring_loop threads and their locals
    dsc,                \* the caller of discover_network and its locals
    held                \* what a reader of the registry holds

registryVars == <<devices, clock, monitoring_active, lp, dsc, held>>

VARIABLES
    file,               \* the content of the database file, or Missing
    saved,              \* the registry as it was when it was last saved
    persist_pc          \* "start", then how the last call ended: "saved",
                        \* "loaded", or "notfound" (load, no file)

persistVars == <<file, saved, persist_pc>>

VARIABLES
    scapy_available,    \* SCAPY_AVAILABLE: whether the ICMP fallback exists
    probe,              \* what each probing strategy meets, per address
    ping_result         \* what _ping returned per address ("unset" before)

pingVars == <<scapy_available, probe, ping_result>>

VARIABLES
    config_file,        \* the content of the configuration file, or Missing
    config,             \* self.config
    controller          \* "none" before NetworkController(), then
                        \* "constructed", or "failed" when __init__ raised

configVars == <<config_file, config, controller>>

VARIABLES
    alerts              \* how many times _send_alert announced each address

notifyVars == <<alerts>>

VARIABLES
    up                  \* the network: which addresses answer a probe now

envVars == <<up>>

VARIABLES
    scan_env,           \* what one fingerprinting meets at each of its steps
    scan_out            \* what _scan_device made of it

scanVars == <<scan_env, scan_out>>

vars == <<sweepVars, classifyVars, registryVars, persistVars, pingVars,
          configVars, notifyVars, envVars, scanVars>>

\* the variables that the actions of one part of the model leave alone
sweepFrame == <<classifyVars, registryVars, persistVars, pingVars, configVars,
                notifyVars, envVars, scanVars>>
storeFrame == <<sweepVars, classifyVars, persistVars, pingVars, configVars,
                envVars, scanVars>>
registryFrame == <<storeFrame, notifyVars>>
persistFrame == <<sweepVars, classifyVars, pingVars, configVars,
                  notifyVars, envVars, scanVars>>
pingFrame == <<sweepVars, classifyVars, registryVars, persistVars, configVars,
               notifyVars, envVars, scanVars>>
scanFrame == <<sweepVars, classifyVars, registryVars, persistVars, pingVars,
               configVars, notifyVars, envVars>>
envFrame == <<sweepVars, classifyVars, registryVars, persistVars, pingVars,
              configVars, notifyVars, scanVars>>

(***************************************************************************)
(* Helpers                                                                 *)
(***************************************************************************)
Range(s) == {s[i] : i \in 1..Len(s)}

NoDuplicates(s) == \A i, j \in 1..Len(s) : i # j => s[i] # s[j]

(***************************************************************************)
(* Strings that the code inspects are sequences of characters.             *)
(***************************************************************************)
\* str.lower(), on the letters that occur in the modelled strings
LowerChar(c) ==
    CASE c = "A" -> "a" [] c = "C" -> "c" [] c = "E" -> "e" [] c = "G" -> "g"
      [] c = "O" -> "o" [] c = "R" -> "r" [] c = "T" -> "t" [] c = "U" -> "u"
      [] c = "W" -> "w" [] c = "Y" -> "y"
      [] OTHER -> c

Lower(s) == [i \in 1..Len(s) |-> LowerChar(s[i])]

\* `sub in s` on strings
Contains(sub, s) ==
    \E i \in 0..(Len(s) - Len(sub)) : SubSeq(s, i + 1, i + Len(sub)) = sub

\* `x in lst` on a list
InList(x, lst) == \E i \in 1..Len(lst) : lst[i] = x

\* str(v) of a services entry {"name": .., "product": .., "version": ..}
StrOfService(v) ==
    <<"{", "'", "n", "a", "m", "e", "'", ":", " ", "'">> \o v.name
      \o <<"'", ",", " ", "'", "p", "r", "o", "d", "u", "c", "t", "'", ":", " ", "'">> \o v.product
      \o <<"'", ",", " ", "'", "v", "e", "r", "s", "i", "o", "n", "'", ":", " ", "'">> \o v.version
      \o <<"'", "}">>

(***************************************************************************)
(* _ping                                                                   *)
(***************************************************************************)
\* what subprocess.run(['ping', ...], timeout=2) can do: finish with return
\* code 0, finish with another return code, raise TimeoutExpired, raise
\* another error (no ping executable)
SubprocessOutcomes == {"rc0", "rc1", "timeout", "oserror"}
\* what scapy.sr1(..., timeout=1) can do: return a response, return None,
\* raise
IcmpOutcomes == {"reply", "none", "error"}

\* _ping that would let the error of a strategy out
ping_propagates(sub, scapy, icmp) ==
    IF sub = "rc0" THEN "True"
    ELSE IF sub \in {"timeout", "oserror"} THEN "raised"
    ELSE IF scapy
      THEN IF icmp = "reply" THEN "True"
           ELSE IF icmp = "none" THEN "False" ELSE "raised"
    ELSE "False"
\* _ping: the value returned, "True" or "False" ("raised" would be an
\* exception that leaves the call); both try blocks have a bare `except:`
_ping(sub, scapy, icmp) ==
    IF sub = "rc0" THEN "True"
    ELSE IF scapy
      THEN IF icmp = "reply" THEN "True"
           ELSE IF icmp = "none" THEN "False"
           ELSE "False"
    ELSE "False"

PingInit ==
    /\ scapy_available \in BOOLEAN
    /\ probe \in [Subnet -> [sub : SubprocessOutcomes, icmp : IcmpOutcomes]]
    /\ ping_result = [h \in Subnet |-> "unset"]

PingIdle ==
    /\ scapy_available = FALSE
    /\ probe = [h \in Subnet |-> [sub |-> "rc1", icmp |-> "none"]]
    /\ ping_result = [h \in Subnet |-> "unset"]

\* a call self._ping(host)
Ping(host) ==
    /\ ping_result[host] = "unset"
    /\ ping_result' =
          [ping_result EXCEPT
             ![host] = _ping(probe[host].sub, scapy_available, probe[host].icmp)]
    /\ UNCHANGED <<scapy_available, probe>>
    /\ UNCHANGED pingFrame

PingNext == \E host \in Subnet : Ping(host)

(***************************************************************************)
(* __init__ and _load_config                                               *)
(***************************************************************************)
DefaultConfig ==
    [default_subnet |-> "192.168.1.0/24", scan_timeout |-> 30,
     monitoring_interval |-> 60, max_threads |-> 50,
     admin_credentials |-> <<>>,
     security_settings |->
        [block_unknown_devices |-> FALSE, alert_on_new_devices |-> TRUE,
         bandwidth_limits |-> <<>>]]

\* a configuration that an operator wrote
CustomConfig ==
    [DefaultConfig EXCEPT !.default_subnet = "10.0.0.0/30",
                          !.monitoring_interval = 5,
                          !.max_threads = 2,
                          !.security_settings.alert_on_new_devices = FALSE]

NoConfig == [none |-> TRUE]

\* the configuration file: absent, or present with text that json.load
\* parses (valid) into doc, or with text that it rejects
MissingConfig == [exists |-> FALSE, valid |-> FALSE, doc |-> NoConfig]
MalformedConfig == [exists |-> TRUE, valid |-> FALSE, doc |-> NoConfig]
ConfigText(c) == [exists |-> TRUE, valid |-> TRUE, doc |-> c]

ConfigFiles == {MissingConfig, MalformedConfig, ConfigText(CustomConfig)}

\* _load_config that would fall back to the defaults on a malformed file
load_config_lenient(f) ==
    IF f.exists /\ f.valid
      THEN [raised |-> FALSE, config |-> f.doc, file |-> f]
      ELSE [raised |-> FALSE, config |-> DefaultConfig,
            file |-> ConfigText(DefaultConfig)]
\* _load_config: what it returns (or that it raised) and the file afterwards;
\* only FileNotFoundError is caught
_load_config(f) ==
    IF ~f.exists
      THEN [raised |-> FALSE, config |-> DefaultConfig,
            file |-> ConfigText(DefaultConfig)]
    ELSE IF f.valid
      THEN [raised |-> FALSE, config |-> f.doc, file |-> f]
    ELSE [raised |-> TRUE, config |-> NoConfig, file |-> f]

\* a method of the controller can be called once the object exists
Constructed == controller = "constructed"

ConfigInit ==
    /\ config_file \in ConfigFiles
    /\ config = NoConfig
    /\ controller = "none"

\* the state after NetworkController() with no configuration file
ConfigIdle ==
    /\ config_file = ConfigText(DefaultConfig)
    /\ config = DefaultConfig
    /\ controller = "constructed"

\* the state after NetworkController() with the file of an operator who
\* turned the alerts off
ConfigQuiet ==
    /\ config_file = ConfigText(CustomConfig)
    /\ config = CustomConfig
    /\ controller = "constructed"

(***************************************************************************)
(* _detect_device_type                                                     *)
(***************************************************************************)
\* `any("router" in str(v).lower() or "gateway" in str(v).lower()
\*      for v in services.values())`
RouterLike(services) ==
    \E k \in DOMAIN services :
        \/ Contains(<<"r", "o", "u", "t", "e", "r">>, Lower(StrOfService(services[k])))
        \/ Contains(<<"g", "a", "t", "e", "w", "a", "y">>, Lower(StrOfService(services[k])))

detect_device_type_server_first(info) ==
    LET ports == info.open_ports
        services == info.services
    IN  IF InList(22, ports) \/ InList(3389, ports)
          THEN "server"
        ELSE IF /\ InList(80, ports) \/ InList(443, ports) \/ InList(8080, ports)
                /\ RouterLike(services)
          THEN "router"
        ELSE IF InList(631, ports) \/ InList(9100, ports)
          THEN "printer"
        ELSE IF Len(ports) <= 3 /\ (InList(80, ports) \/ InList(443, ports))
          THEN "iot_device"
        ELSE "computer"
_detect_device_type(info) ==
    LET ports == info.open_ports
        services == info.services
    IN  IF /\ InList(80, ports) \/ InList(443, ports) \/ InList(8080, ports)
           /\ RouterLike(services)
          THEN "router"
        ELSE IF InList(22, ports) \/ InList(3389, ports)
          THEN "server"
        ELSE IF InList(631, ports) \/ InList(9100, ports)
          THEN "printer"
        ELSE IF Len(ports) <= 3 /\ (InList(80, ports) \/ InList(443, ports))
          THEN "iot_device"
        ELSE "computer"

(***************************************************************************)
(* Inputs of _detect_device_type: the ports the classification tests, two  *)
(* that it ignores, and services entries with and without a router-like    *)
(* string.                                                                 *)
(***************************************************************************)
PortUniverse == {22, 80, 443, 631, 3389, 5000, 5001, 8080, 9100}

RECURSIVE SortedList(_)
SortedList(S) ==
    IF S = {} THEN <<>>
    ELSE LET m == CHOOSE x \in S : \A y \in S : x <= y
         IN  <<m>> \o SortedList(S \ {m})

PlainService ==
    [name |-> <<"h", "t", "t", "p">>, product |-> <<>>, version |-> <<>>]

SpecialServices ==
    { [name |-> <<"h", "t", "t", "p">>, product |-> <<"C", "i", "s", "c", "o", " ", "R", "o", "u", "t", "e", "r">>, version |-> <<>>],
      [name |-> <<"G", "A", "T", "E", "W", "A", "Y">>, product |-> <<>>, version |-> <<>>],
      [name |-> <<"r", "o", "u", "t", "e">>, product |-> <<"g", "a", "t", "e">>, version |-> <<"w", "a", "y">>] }

\* a services dict keyed by integer ports, as _scan_device builds it
ServicesOf(P, special) ==
    [k \in {<<"int", p>> : p \in P} |->
        IF special.port = k[2] THEN special.svc ELSE PlainService]

ClassifyInputs ==
    { [hostname |-> h, open_ports |-> SortedList(P),
       services |-> ServicesOf(P, sp)] :
        h \in {<<>>, <<"r", "o", "u", "t", "e", "r">>},
        P \in SUBSET PortUniverse,
        sp \in [port : PortUniverse \cup {0}, svc : SpecialServices] }

ClassifyInit ==
    /\ device_info \in ClassifyInputs
    /\ device_type = "unset"

\* device_info["device_type"] = self._detect_device_type(device_info)
Classify ==
    /\ device_type = "unset"
    /\ device_type' = _detect_device_type(device_info)
    /\ UNCHANGED <<device_info, sweepVars, registryVars, persistVars,
                   pingVars, configVars, notifyVars, envVars, scanVars>>

ClassifyIdle ==
    /\ device_info = [hostname |-> <<>>, open_ports |-> <<>>,
                      services |-> <<>>]
    /\ device_type = "unset"

SweepIdle ==
    /\ max_threads = 1
    /\ reach = [a \in Network |-> FALSE]
    /\ swPc = [s \in SweepIds |-> "idle"]
    /\ swIdx = [s \in SweepIds |-> 1]
    /\ threads = [s \in SweepIds |-> <<>>]
    /\ swJoin = [s \in SweepIds |-> 1]
    /\ thr = [s \in SweepIds |-> [a \in Network |-> "unborn"]]
    /\ active_hosts = [s \in SweepIds |-> <<>>]
    /\ pingRes = [s \in SweepIds |-> [a \in Network |-> "none"]]


(***************************************************************************)
(* _ping_sweep                                                             *)
(***************************************************************************)
\* `if len(threads) >= self.config["max_threads"]`
BatchFull(n, cap) == n >= cap

\* t.join() returns only once thread t has finished
JoinNoWait(st) == TRUE
JoinReturns(st) == st = "done"

\* ping_host: `if self._ping(str(ip)): active_hosts.append(str(ip))`
AfterPingInverted(r) == IF r THEN "done" ELSE "append"
AfterPing(r) == IF r THEN "append" ELSE "done"

\* list.append (atomic under the interpreter lock)
ListAppendTwice(l, x) == Append(Append(l, x), x)
ListAppend(l, x) == Append(l, x)

InFlight(s) == {a \in Network : thr[s][a] \in {"pinging", "append"}}

SweepInit ==
    /\ max_threads \in 1..MaxCap
    /\ reach \in [Network -> BOOLEAN]
    /\ swPc = [s \in SweepIds |-> "idle"]
    /\ swIdx = [s \in SweepIds |-> 1]
    /\ threads = [s \in SweepIds |-> <<>>]
    /\ swJoin = [s \in SweepIds |-> 1]
    /\ thr = [s \in SweepIds |-> [a \in Network |-> "unborn"]]
    /\ active_hosts = [s \in SweepIds |-> <<>>]
    /\ pingRes = [s \in SweepIds |-> [a \in Network |-> "none"]]

\* entry of _ping_sweep: network, active_hosts = [], threads = []
SweepCall(s) ==
    /\ swPc[s] = "idle"
    /\ swPc' = [swPc EXCEPT ![s] = "loop"]
    /\ UNCHANGED <<max_threads, reach, swIdx, threads, swJoin, thr,
                   active_hosts, pingRes>>
    /\ UNCHANGED sweepFrame

\* `for ip in network:` and the test of the batch size
SweepLoop(s) ==
    /\ swPc[s] = "loop"
    /\ IF swIdx[s] > NumAddrs
         THEN /\ swPc' = [swPc EXCEPT ![s] = "final"]
              /\ swJoin' = [swJoin EXCEPT ![s] = 1]
         ELSE IF BatchFull(Len(threads[s]), max_threads)
           THEN /\ swPc' = [swPc EXCEPT ![s] = "join"]
                /\ swJoin' = [swJoin EXCEPT ![s] = 1]
           ELSE /\ swPc' = [swPc EXCEPT ![s] = "start"]
                /\ UNCHANGED swJoin
    /\ UNCHANGED <<max_threads, reach, swIdx, threads, thr, active_hosts,
                   pingRes>>
    /\ UNCHANGED sweepFrame

\* `for t in threads: t.join()` then `threads = []`
SweepJoinBatch(s) ==
    /\ swPc[s] = "join"
    /\ IF swJoin[s] > Len(threads[s])
         THEN /\ threads' = [threads EXCEPT ![s] = <<>>]
              /\ swPc' = [swPc EXCEPT ![s] = "start"]
              /\ UNCHANGED swJoin
         ELSE /\ JoinReturns(thr[s][threads[s][swJoin[s]]])
              /\ swJoin' = [swJoin EXCEPT ![s] = @ + 1]
              /\ UNCHANGED <<threads, swPc>>
    /\ UNCHANGED <<max_threads, reach, swIdx, thr, active_hosts, pingRes>>
    /\ UNCHANGED sweepFrame

\* `thread.start(); threads.append(thread)`
SweepStart(s) ==
    /\ swPc[s] = "start"
    /\ thr' = [thr EXCEPT ![s][swIdx[s]] = "pinging"]
    /\ threads' = [threads EXCEPT ![s] = Append(@, swIdx[s])]
    /\ swIdx' = [swIdx EXCEPT ![s] = @ + 1]
    /\ swPc' = [swPc EXCEPT ![s] = "loop"]
    /\ UNCHANGED <<max_threads, reach, swJoin, active_hosts, pingRes>>
    /\ UNCHANGED sweepFrame

\* the closing `for t in threads: t.join()` and `return active_hosts`
SweepFinalJoin(s) ==
    /\ swPc[s] = "final"
    /\ IF swJoin[s] > Len(threads[s])
         THEN /\ swPc' = [swPc EXCEPT ![s] = "returned"]
              /\ UNCHANGED swJoin
         ELSE /\ JoinReturns(thr[s][threads[s][swJoin[s]]])
              /\ swJoin' = [swJoin EXCEPT ![s] = @ + 1]
              /\ UNCHANGED swPc
    /\ UNCHANGED <<max_threads, reach, swIdx, threads, thr, active_hosts,
                   pingRes>>
    /\ UNCHANGED sweepFrame

\* thread ping_host(ip): the call of self._ping
PingHostProbe(s, a) ==
    /\ thr[s][a] = "pinging"
    /\ pingRes' = [pingRes EXCEPT ![s][a] = IF reach[a] THEN "T" ELSE "F"]
    /\ thr' = [thr EXCEPT ![s][a] = AfterPing(reach[a])]
    /\ UNCHANGED <<max_threads, reach, swPc, swIdx, threads, swJoin,
                   active_hosts>>
    /\ UNCHANGED sweepFrame

\* thread ping_host(ip): active_hosts.append(str(ip))
PingHostAppend(s, a) ==
    /\ thr[s][a] = "append"
    /\ active_hosts' = [active_hosts EXCEPT ![s] = ListAppend(@, a)]
    /\ thr' = [thr EXCEPT ![s][a] = "done"]
    /\ UNCHANGED <<max_threads, reach, swPc, swIdx, threads, swJoin,
                   pingRes>>
    /\ UNCHANGED sweepFrame

SweepNext ==
    \/ \E s \in SweepIds : SweepCall(s)
    \/ \E s \in SweepIds : SweepLoop(s)
    \/ \E s \in SweepIds : SweepJoinBatch(s)
    \/ \E s \in SweepIds : SweepStart(s)
    \/ \E s \in SweepIds : SweepFinalJoin(s)
    \/ \E s \in SweepIds, a \in Network : PingHostProbe(s, a)
    \/ \E s \in SweepIds, a \in Network : PingHostAppend(s, a)


(***************************************************************************)
(* The registry (self.devices), its writers and its readers.               *)
(*                                                                         *)
(* Records are objects and self.devices holds references to them.  The     *)
(* only references outside self.devices are the device_info local of a     *)
(* thread between _scan_device and the store, and what a reader was        *)
(* handed.  devices[a] is therefore the value of the object that key a     *)
(* refers to; a write `self.devices[ip][field] = x` changes that object in *)
(* place, and `self.devices[ip] = device_info` rebinds the key, which      *)
(* leaves the old object, if a reader holds it, as it was.                 *)
(***************************************************************************)
\* what the lookups and the port scan of _scan_device gather for a host:
\* nothing for the first address (lookups fail, no scanner), a web server on
\* port 80 for the others
ScanOf(host) ==
    IF host = 1
      THEN [hostname |-> <<>>, mac_address |-> <<>>, open_ports |-> <<>>,
            services |-> <<>>, os_guess |-> <<>>]
      ELSE [hostname |-> <<"n", "a", "s">>, mac_address |-> <<"a", "a", ":", "0", "1">>, open_ports |-> <<80>>,
            services |-> [k \in {<<"int", 80>>} |-> PlainService],
            os_guess |-> <<"L", "i", "n", "u", "x">>]

_scan_device(host, scan, now) ==
    LET info == [ip |-> host, hostname |-> scan.hostname,
                 mac_address |-> scan.mac_address, vendor |-> <<>>,
                 open_ports |-> scan.open_ports, services |-> scan.services,
                 os_guess |-> scan.os_guess, last_seen |-> now,
                 device_type |-> "unknown", status |-> "online"]
    IN  [info EXCEPT !.device_type = _detect_device_type(info)]

\* _scan_device(host) called at time now, for every address and time
ScanTable ==
    [host \in Subnet |->
        [now \in 0..MaxClock |-> _scan_device(host, ScanOf(host), now)]]

NoRecord == [ip |-> 0]

(***************************************************************************)
(* _scan_device step by step: what each step of one fingerprinting meets   *)
(* (scan_env) and what the call makes of it (scan_out).                    *)
(***************************************************************************)
\* the ports of self.nm.scan(host, '22,80,443,3389', '-sS'), in the order
\* in which the result lists them
ScannedPorts == <<22, 80, 443, 3389>>

\* no call of _scan_device has returned
NoScanResult == [done |-> FALSE]

\* dns: socket.gethostbyaddr answers or raises.  arp: scapy is missing, or
\* srp raises, or nobody answers, or the device answers.  nmap: the module or
\* the scanner is missing; or nm.scan raises; or the host is absent from
\* nm.all_hosts(); or the result is read to its end; or reading it raises
\* after fail_at ports were handled (fail_at = Len(ScannedPorts): in the OS
\* detection).  state: what nmap says of each port.  gateway: whether the
\* service on port 80 names a router.  osmatch: the key is absent, or its
\* list is empty, or it has a match.
ScanEnvs ==
    { e \in [host : Subnet, now : 0..MaxClock,
             dns : {"resolves", "raises"},
             arp : {"no_scapy", "raises", "silent", "answers"},
             nmap : {"unavailable", "refuses", "absent", "ok", "breaks"},
             state : [Range(ScannedPorts) -> {"open", "closed"}],
             gateway : BOOLEAN,
             osmatch : {"absent", "empty", "match"},
             fail_at : 0..Len(ScannedPorts)] :
        /\ e.nmap # "breaks" => e.fail_at = 0
        /\ e.nmap \notin {"ok", "breaks"}
              => /\ e.state = [q \in Range(ScannedPorts) |-> "closed"]
                 /\ ~e.gateway
        /\ e.nmap # "ok" => e.osmatch = "absent" }

RouterService ==
    [name |-> <<"h", "t", "t", "p">>,
     product |-> <<"R", "o", "u", "t", "e", "r">>, version |-> <<>>]

\* _get_hostname: `try: return socket.gethostbyaddr(ip)[0]` /
\* `except: return ""`
_get_hostname(e) ==
    IF e.dns = "resolves" THEN <<"n", "a", "s">> ELSE <<>>

\* _get_mac_address: the hwsrc of the first answer; "" without scapy, after
\* an exception and when nobody answers
_get_mac_address(e) ==
    IF e.arp = "answers" THEN <<"a", "a", ":", "0", "1">> ELSE <<>>

\* how many entries of the result the loop over the ports handles before
\* the try block is left
PortsHandled(e) ==
    IF e.nmap = "ok" THEN Len(ScannedPorts)
    ELSE IF e.nmap = "breaks" THEN e.fail_at
    ELSE 0

IsOpen(e, q) == e.state[q] = "open"

\* device_info["open_ports"].append(port) for the handled ports whose
\* state is 'open'
RECURSIVE OpenPorts(_, _)
OpenPorts(e, n) ==
    IF n = 0 THEN <<>>
    ELSE IF IsOpen(e, ScannedPorts[n])
      THEN Append(OpenPorts(e, n - 1), ScannedPorts[n])
    ELSE OpenPorts(e, n - 1)

\* a port scan that would throw away what it gathered when it fails
GatheredOrNothing(e) ==
    [hostname |-> _get_hostname(e),
     mac_address |-> _get_mac_address(e),
     open_ports |-> IF e.nmap = "ok" THEN OpenPorts(e, Len(ScannedPorts))
                    ELSE <<>>,
     services |->
        IF e.nmap = "ok"
          THEN [k \in {<<"int", q>> : q \in Range(OpenPorts(e, Len(ScannedPorts)))} |->
                  IF k[2] = 80 /\ e.gateway THEN RouterService
                  ELSE PlainService]
          ELSE <<>>,
     os_guess |-> IF e.nmap = "ok" /\ e.osmatch = "match"
                    THEN <<"L", "i", "n", "u", "x">> ELSE <<>>]
\* the fields of device_info when the classification starts: the two
\* lookups, then whatever the try block of the port scan wrote before it
\* ended or was left
Gathered(e) ==
    [hostname |-> _get_hostname(e),
     mac_address |-> _get_mac_address(e),
     open_ports |-> OpenPorts(e, PortsHandled(e)),
     services |->
        [k \in {<<"int", q>> : q \in Range(OpenPorts(e, PortsHandled(e)))} |->
            IF k[2] = 80 /\ e.gateway THEN RouterService ELSE PlainService],
     os_guess |-> IF e.nmap = "ok" /\ e.osmatch = "match"
                    THEN <<"L", "i", "n", "u", "x">> ELSE <<>>]

\* one call of _scan_device: every exception of a step is caught inside the
\* step, so the call returns
ScanResult(e) ==
    [done |-> TRUE, raised |-> FALSE,
     info |-> _scan_device(e.host, Gathered(e), e.now)]

ScanInit ==
    /\ scan_env \in ScanEnvs
    /\ scan_out = NoScanResult

ScanCall ==
    /\ ~scan_out.done
    /\ scan_out' = ScanResult(scan_env)
    /\ UNCHANGED scan_env
    /\ UNCHANGED scanFrame


\* `d[k] = v` on a dict
DictStoreAndDropOthers(d, k, v) == [x \in {k} |-> v]
DictStore(d, k, v) == [x \in DOMAIN d \cup {k} |-> IF x = k THEN v ELSE d[x]]

\* a status write that would touch last_seen as well (not what the code does)
SetStatusAndClearSeen(d, k, x) ==
    [d EXCEPT ![k].status = x, ![k].last_seen = 0]
\* `d[k][field] = x`: a write into the object that d[k] refers to
SetStatus(d, k, x) == [d EXCEPT ![k].status = x]
\* a last_seen write that would set the status too (not what the code does)
SetLastSeenAndStatus(d, k, x) ==
    [d EXCEPT ![k].last_seen = x, ![k].status = "online"]
SetLastSeen(d, k, x) == [d EXCEPT ![k].last_seen = x]

\* no alert sent yet
NotifyIdle == alerts = [a \in Subnet |-> 0]

\* a network where every address answers and stays so
EnvIdle == up = [a \in Subnet |-> TRUE]

\* no fingerprinting under study
ScanIdle ==
    /\ scan_env = "none"
    /\ scan_out = NoScanResult

\* a monitor that would never alert, whatever the setting
AlertNever(c) == FALSE
\* `if self.config["security_settings"]["alert_on_new_devices"]`
alert_on_new_devices(c) == c.security_settings.alert_on_new_devices

\* _send_alert: one more announcement of the address
_send_alert(sent, ip) == [sent EXCEPT ![ip] = @ + 1]

LoopIdle ==
    [pc |-> "none", todo |-> {}, ip |-> 0, stamp |-> 0,
     current_devices |-> {}, discovered |-> {}, new_devices |-> {},
     info |-> NoRecord]

DiscoverIdle == [pc |-> "idle", hosts |-> {}, host |-> 0, info |-> NoRecord]

NotHeld == [kind |-> "none", items |-> <<>>]

\* A reader's list of records: each item refers to the object that was the
\* value of key ip when the list was built.  While the key still refers to
\* that object the item is live; once the key is rebound the item refers to
\* the old object, whose last value is kept in old.
Rebind(h, k, d) ==
    IF h.kind # "list" THEN h
    ELSE [h EXCEPT !.items =
            [i \in 1..Len(h.items) |->
                IF h.items[i].live /\ h.items[i].ip = k
                  THEN [ip |-> k, live |-> FALSE, old |-> d[k]]
                  ELSE h.items[i]]]

\* what the reader reads through what it holds
HeldView ==
    CASE held.kind = "list" ->
           [i \in 1..Len(held.items) |->
               IF held.items[i].live THEN devices[held.items[i].ip]
                                     ELSE held.items[i].old]
      [] held.kind = "dict" -> devices
      [] OTHER -> <<>>

RegistryInit ==
    /\ devices = <<>>
    /\ clock = 0
    /\ monitoring_active = FALSE
    /\ lp = [l \in Loops |-> LoopIdle]
    /\ dsc = DiscoverIdle
    /\ held = NotHeld

RegistryIdle == RegistryInit

(***************************************************************************)
(* The environment                                                         *)
(***************************************************************************)
\* time passes
Tick ==
    /\ clock < MaxClock
    /\ clock' = clock + 1
    /\ UNCHANGED <<devices, monitoring_active, lp, dsc, held>>
    /\ UNCHANGED registryFrame

\* a device joins or leaves the network
Flip ==
    /\ \E a \in Subnet : up' = [up EXCEPT ![a] = ~up[a]]
    /\ UNCHANGED envFrame

\* any network
EnvInit == up \in [Subnet -> BOOLEAN]

(***************************************************************************)
(* start_monitoring, stop_monitoring, _monitoring_loop                     *)
(***************************************************************************)
\* start_monitoring: set the flag and start a new loop thread (the first
\* unused one of the threads in L)
StartMonitoring(L) ==
    /\ Constructed
    /\ \E l \in L :
          /\ lp[l].pc = "none"
          /\ \A m \in L : lp[m].pc = "none" => l <= m
          /\ lp' = [lp EXCEPT ![l].pc = "test"]
    /\ monitoring_active' = TRUE
    /\ UNCHANGED <<devices, clock, dsc, held>>
    /\ UNCHANGED registryFrame

\* stop_monitoring: clear the flag
StopMonitoring ==
    /\ Constructed
    /\ monitoring_active' = FALSE
    /\ UNCHANGED <<devices, clock, lp, dsc, held>>
    /\ UNCHANGED registryFrame

\* `while self.monitoring_active:`; when true, _update_device_status takes
\* `list(self.devices.keys())`; when false the thread ends
LoopConditionAlways == TRUE
LoopCondition == monitoring_active

LoopTest(l) ==
    /\ lp[l].pc = "test"
    /\ IF LoopCondition
         THEN lp' = [lp EXCEPT ![l].pc = "probe", ![l].todo = DOMAIN devices]
         ELSE lp' = [lp EXCEPT ![l] = LoopIdle]
    /\ UNCHANGED <<devices, clock, monitoring_active, dsc, held>>
    /\ UNCHANGED registryFrame

\* set(self.devices.keys()): every key, whatever the status of its record
OnlineAddresses(d) == {a \in DOMAIN d : d[a].status = "online"}
KnownAddresses(d) == DOMAIN d

\* _update_device_status: `for ip in ...: if self._ping(ip):` with either
\* outcome of the probe; after the last address, _check_new_devices takes
\* current_devices = set(self.devices.keys())
LoopProbe(l) ==
    /\ lp[l].pc = "probe"
    /\ IF lp[l].todo = {}
         THEN lp' = [lp EXCEPT ![l].current_devices = KnownAddresses(devices),
                               ![l].pc = "sweep"]
         ELSE \E ip \in lp[l].todo, ok \in BOOLEAN :
                lp' = [lp EXCEPT ![l].todo = @ \ {ip},
                                 ![l].ip = ip,
                                 ![l].pc = IF ok THEN "wlast" ELSE "woff"]
    /\ UNCHANGED <<devices, clock, monitoring_active, dsc, held>>
    /\ UNCHANGED registryFrame

\* self.devices[ip]["last_seen"] = datetime.now().isoformat(); stamp is the
\* value of datetime.now().isoformat() that this thread wrote
LoopWriteLastSeen(l) ==
    /\ lp[l].pc = "wlast"
    /\ devices' = SetLastSeen(devices, lp[l].ip, clock)
    /\ lp' = [lp EXCEPT ![l].pc = "wstat", ![l].stamp = clock]
    /\ UNCHANGED <<clock, monitoring_active, dsc, held>>
    /\ UNCHANGED registryFrame

\* the status written after a re-probe
StatusAfterProbeKeep(old, ok) == IF ok THEN "online" ELSE old
StatusAfterProbe(old, ok) == IF ok THEN "online" ELSE "offline"

\* self.devices[ip]["status"] = "online" / "offline"
LoopWriteStatus(l, ok) ==
    /\ lp[l].pc = IF ok THEN "wstat" ELSE "woff"
    /\ devices' = SetStatus(devices, lp[l].ip,
                      StatusAfterProbe(devices[lp[l].ip].status, ok))
    /\ lp' = [lp EXCEPT ![l].pc = "probe", ![l].ip = 0, ![l].stamp = 0]
    /\ UNCHANGED <<clock, monitoring_active, dsc, held>>
    /\ UNCHANGED registryFrame

\* discovered = set(self._ping_sweep(self.config["default_subnet"])): the
\* sweep returns the addresses that answered
LoopSweep(l) ==
    /\ lp[l].pc = "sweep"
    /\ \E discovered \in SUBSET Subnet :
          lp' = [lp EXCEPT ![l].discovered = discovered, ![l].pc = "diff"]
    /\ UNCHANGED <<devices, clock, monitoring_active, dsc, held>>
    /\ UNCHANGED registryFrame

\* new_devices = discovered - current_devices
NewDevicesAll(discovered, current) == discovered
NewDevices(discovered, current) == discovered \ current

\* the difference is taken; neither set is used afterwards
LoopDiff(l) ==
    /\ lp[l].pc = "diff"
    /\ lp' = [lp EXCEPT
              ![l].new_devices =
                  NewDevices(lp[l].discovered, lp[l].current_devices),
              ![l].current_devices = {},
              ![l].discovered = {},
              ![l].pc = "scan"]
    /\ UNCHANGED <<devices, clock, monitoring_active, dsc, held>>
    /\ UNCHANGED registryFrame

\* `for ip in new_devices: device_info = self._scan_device(ip)`
LoopScan(l) ==
    /\ lp[l].pc = "scan"
    /\ IF lp[l].new_devices = {}
         THEN lp' = [lp EXCEPT ![l].pc = "sleep"]
         ELSE \E ip \in lp[l].new_devices :
                lp' = [lp EXCEPT ![l].new_devices = @ \ {ip},
                                 ![l].ip = ip,
                                 ![l].info = ScanTable[ip][clock],
                                 ![l].pc = "store"]
    /\ UNCHANGED <<devices, clock, monitoring_active, dsc, held>>
    /\ UNCHANGED registryFrame

\* self.devices[ip] = device_info
LoopStore(l) ==
    /\ lp[l].pc = "store"
    /\ devices' = DictStore(devices, lp[l].ip, lp[l].info)
    /\ held' = Rebind(held, lp[l].ip, devices)
    /\ alerts' = IF alert_on_new_devices(config)
                    THEN _send_alert(alerts, lp[l].ip)
                    ELSE alerts
    /\ lp' = [lp EXCEPT ![l].ip = 0, ![l].info = NoRecord, ![l].pc = "scan"]
    /\ UNCHANGED <<clock, monitoring_active, dsc>>
    /\ UNCHANGED storeFrame

\* time.sleep(self.config["monitoring_interval"])
LoopSleep(l) ==
    /\ lp[l].pc = "sleep"
    /\ lp' = [lp EXCEPT ![l].pc = "test"]
    /\ UNCHANGED <<devices, clock, monitoring_active, dsc, held>>
    /\ UNCHANGED registryFrame

\* an exception inside _check_new_devices or at the sleep (a subnet that
\* IPNetwork rejects, a key the configuration lacks, a thread that cannot be
\* started): control leaves the try block for `except Exception as e:`
LoopError(l) ==
    /\ lp[l].pc \in {"sweep", "scan", "sleep"}
    /\ lp' = [lp EXCEPT ![l] = [LoopIdle EXCEPT !.pc = "except"]]
    /\ UNCHANGED <<devices, clock, monitoring_active, dsc, held>>
    /\ UNCHANGED registryFrame

\* where the loop thread goes after the handler
AfterErrorExit == "none"
AfterError == "test"

\* self.logger.error(f"Monitoring error: {e}"), then back to the `while`
LoopExcept(l) ==
    /\ lp[l].pc = "except"
    /\ lp' = [lp EXCEPT ![l].pc = AfterError]
    /\ UNCHANGED <<devices, clock, monitoring_active, dsc, held>>
    /\ UNCHANGED registryFrame

LoopStep(l) ==
    \/ LoopTest(l)
    \/ LoopProbe(l)
    \/ LoopWriteLastSeen(l)
    \/ LoopWriteStatus(l, TRUE)
    \/ LoopWriteStatus(l, FALSE)
    \/ LoopSweep(l)
    \/ LoopDiff(l)
    \/ LoopScan(l)
    \/ LoopStore(l)
    \/ LoopSleep(l)
    \/ LoopError(l)
    \/ LoopExcept(l)

\* the same steps on a network whose state the probes report: _ping(ip)
\* succeeds exactly on an address that is up, and _ping_sweep returns the
\* addresses that are up
LiveProbe(l) ==
    /\ LoopProbe(l)
    /\ lp'[l].pc = "wlast" => up[lp'[l].ip]
    /\ lp'[l].pc = "woff" => ~up[lp'[l].ip]

LiveSweep(l) ==
    /\ LoopSweep(l)
    /\ lp'[l].discovered = {a \in Subnet : up[a]}

LiveStep(l) ==
    \/ LoopTest(l)
    \/ LiveProbe(l)
    \/ LoopWriteLastSeen(l)
    \/ LoopWriteStatus(l, TRUE)
    \/ LoopWriteStatus(l, FALSE)
    \/ LiveSweep(l)
    \/ LoopDiff(l)
    \/ LoopScan(l)
    \/ LoopStore(l)
    \/ LoopSleep(l)
    \/ LoopError(l)
    \/ LoopExcept(l)

(***************************************************************************)
(* discover_network                                                        *)
(***************************************************************************)
DiscoverCall ==
    /\ Constructed
    /\ dsc.pc = "idle"
    /\ dsc' = [dsc EXCEPT !.pc = "sweep"]
    /\ UNCHANGED <<devices, clock, monitoring_active, lp, held>>
    /\ UNCHANGED registryFrame

\* active_hosts = self._ping_sweep(subnet): the addresses that answered
DiscoverSweep ==
    /\ dsc.pc = "sweep"
    /\ \E answered \in SUBSET Subnet :
          dsc' = [dsc EXCEPT !.hosts = answered, !.pc = "scan"]
    /\ UNCHANGED <<devices, clock, monitoring_active, lp, held>>
    /\ UNCHANGED registryFrame

\* `for host in active_hosts: device_info = self._scan_device(host)`
DiscoverScan ==
    /\ dsc.pc = "scan"
    /\ IF dsc.hosts = {}
         THEN dsc' = [dsc EXCEPT !.pc = "return"]
         ELSE \E host \in dsc.hosts :
                dsc' = [dsc EXCEPT !.hosts = @ \ {host},
                                   !.host = host,
                                   !.info = ScanTable[host][clock],
                                   !.pc = "store"]
    /\ UNCHANGED <<devices, clock, monitoring_active, lp, held>>
    /\ UNCHANGED registryFrame

\* self.devices[host] = device_info
DiscoverStore ==
    /\ dsc.pc = "store"
    /\ devices' = DictStore(devices, dsc.host, dsc.info)
    /\ held' = Rebind(held, dsc.host, devices)
    /\ dsc' = [dsc EXCEPT !.host = 0, !.info = NoRecord, !.pc = "scan"]
    /\ UNCHANGED <<clock, monitoring_active, lp>>
    /\ UNCHANGED registryFrame

\* `return self.devices`; the caller drops the value (keep = FALSE) or
\* holds on to it after the call (keep = TRUE), as scan_network does while
\* it builds its response
DiscoverReturn(keep) ==
    /\ dsc.pc = "return"
    /\ dsc' = DiscoverIdle
    /\ IF keep
         THEN /\ held.kind = "none"
              /\ held' = [kind |-> "dict", items |-> <<>>]
         ELSE UNCHANGED held
    /\ UNCHANGED <<devices, clock, monitoring_active, lp>>
    /\ UNCHANGED registryFrame

(***************************************************************************)
(* Readers: get_device_list and its callers                                *)
(***************************************************************************)
\* `return list(self.devices.values())`: a new list of the same objects
GetDeviceList ==
    /\ Constructed
    /\ held.kind = "none"
    /\ DOMAIN devices # {}
    /\ held' = [kind |-> "list",
                items |-> [i \in 1..Len(SortedList(DOMAIN devices)) |->
                             [ip |-> SortedList(DOMAIN devices)[i],
                              live |-> TRUE, old |-> NoRecord]]]
    /\ UNCHANGED <<devices, clock, monitoring_active, lp, dsc>>
    /\ UNCHANGED registryFrame

\* the reader is done with what it holds
Release ==
    /\ held.kind # "none"
    /\ held' = NotHeld
    /\ UNCHANGED <<devices, clock, monitoring_active, lp, dsc>>
    /\ UNCHANGED registryFrame

(***************************************************************************)
(* save_device_database / load_device_database                             *)
(*                                                                         *)
(* json.dump writes a dict as a JSON object, whose keys are strings: a key *)
(* that is an int is written as its decimal string.  Strings, ints and     *)
(* lists are written as they are, and json.load gives back what the text   *)
(* holds.  A dict key is <<"int", n>> or <<"str", s>>.                     *)
(***************************************************************************)
Missing == [exists |-> FALSE]

DigitChar(d) ==
    CASE d = 0 -> "0" [] d = 1 -> "1" [] d = 2 -> "2" [] d = 3 -> "3"
      [] d = 4 -> "4" [] d = 5 -> "5" [] d = 6 -> "6" [] d = 7 -> "7"
      [] d = 8 -> "8" [] d = 9 -> "9"

\* str(n) of an int n >= 0
RECURSIVE IntToStr(_)
IntToStr(n) ==
    IF n < 10 THEN <<DigitChar(n)>>
    ELSE IntToStr(n \div 10) \o <<DigitChar(n % 10)>>

\* the key of a JSON object written for a dict key
JsonKey(k) == IF k[1] = "int" THEN <<"str", IntToStr(k[2])>> ELSE k

\* a dict as a JSON object
JsonObject(d) ==
    [j \in {JsonKey(k) : k \in DOMAIN d} |->
        d[CHOOSE k \in DOMAIN d : JsonKey(k) = j]]

\* json.dump(self.devices): the record fields are written as they are,
\* services as a JSON object
JsonDump(devs) ==
    [a \in DOMAIN devs |->
        [devs[a] EXCEPT !.services = JsonObject(devs[a].services)]]

\* json.load of that text
JsonLoad(doc) == doc

\* the registries a run of the program can have built: each record is the
\* result of a scan of its address, possibly marked offline since
PersistScans ==
    { [hostname |-> <<>>, mac_address |-> <<>>, open_ports |-> <<>>,
       services |-> <<>>, os_guess |-> <<>>],
      [hostname |-> <<"n", "a", "s">>, mac_address |-> <<"a", "a", ":", "0", "1">>, open_ports |-> <<80>>,
       services |-> [k \in {<<"int", 80>>} |-> PlainService],
       os_guess |-> <<"L", "i", "n", "u", "x">>],
      [hostname |-> <<"n", "a", "s">>, mac_address |-> <<>>, open_ports |-> <<22, 443>>,
       services |-> [k \in {<<"int", 22>>, <<"int", 443>>} |-> PlainService],
       os_guess |-> <<>>] }

PersistRecords(a) ==
    { [_scan_device(a, scan, now) EXCEPT !.status = st] :
        scan \in PersistScans, now \in 0..MaxClock,
        st \in {"online", "offline"} }

PersistRegistries ==
    UNION { { f \in [K -> UNION {PersistRecords(a) : a \in K}] :
                \A a \in K : f[a].ip = a } : K \in SUBSET Subnet }

PersistInit ==
    /\ devices \in PersistRegistries
    /\ clock = 0
    /\ monitoring_active = FALSE
    /\ lp = [l \in Loops |-> LoopIdle]
    /\ dsc = DiscoverIdle
    /\ held = NotHeld
    /\ file \in {Missing}
    /\ saved = <<>>
    /\ persist_pc = "start"

PersistIdle ==
    /\ file = Missing
    /\ saved = <<>>
    /\ persist_pc = "start"

\* save_device_database: json.dump(self.devices, f, indent=4)
SaveDeviceDatabase ==
    /\ Constructed
    /\ file' = [exists |-> TRUE, doc |-> JsonDump(devices)]
    /\ saved' = devices
    /\ persist_pc' = "saved"
    /\ UNCHANGED <<registryVars>>
    /\ UNCHANGED persistFrame

\* how a call of load_device_database ends: FileNotFoundError is caught and
\* logged, the call returns
LoadMissingRaises(f) == IF f.exists THEN "loaded" ELSE "raised"
LoadOutcome(f) == IF f.exists THEN "loaded" ELSE "notfound"

\* load_device_database: self.devices = json.load(f); a missing file
\* leaves self.devices as it is
LoadDeviceDatabase ==
    /\ Constructed
    /\ devices' = IF file.exists THEN JsonLoad(file.doc) ELSE devices
    /\ persist_pc' = LoadOutcome(file)
    /\ UNCHANGED <<clock, monitoring_active, lp, dsc, held, file, saved>>
    /\ UNCHANGED persistFrame

PersistNext ==
    \/ SaveDeviceDatabase
    \/ LoadDeviceDatabase

InitPersist ==
    /\ PersistInit /\ SweepIdle /\ ClassifyIdle /\ PingIdle /\ ConfigIdle
    /\ NotifyIdle /\ EnvIdle /\ ScanIdle

SpecPersist == InitPersist /\ [][PersistNext]_vars

(***************************************************************************)
(* Specifications                                                          *)
(***************************************************************************)
Init ==
    /\ RegistryInit /\ SweepIdle /\ ClassifyIdle /\ PersistIdle
    /\ PingIdle /\ ConfigQuiet
    /\ NotifyIdle /\ EnvIdle /\ ScanIdle

\* the monitoring loops and discover_network
Next ==
    \/ Tick
    \/ StartMonitoring(Loops)
    \/ StopMonitoring
    \/ \E l \in Loops : LoopStep(l)
    \/ DiscoverCall
    \/ DiscoverSweep
    \/ DiscoverScan
    \/ DiscoverStore
    \/ DiscoverReturn(FALSE)

Spec == Init /\ [][Next]_vars

\* one monitoring loop, discover_network and a reader
ReaderNext ==
    \/ Tick
    \/ StartMonitoring({1})
    \/ StopMonitoring
    \/ LoopStep(1)
    \/ DiscoverCall
    \/ DiscoverSweep
    \/ DiscoverScan
    \/ DiscoverStore
    \/ \E keep \in BOOLEAN : DiscoverReturn(keep)
    \/ GetDeviceList
    \/ Release

SpecReader == Init /\ [][ReaderNext]_vars

\* NetworkController(): __init__ calls _load_config first; when that raises,
\* __init__ raises and there is no object; otherwise the registry is empty
\* and the monitor Idle
Construct ==
    /\ controller = "none"
    /\ LET r == _load_config(config_file)
       IN  /\ config_file' = r.file
           /\ config' = r.config
           /\ controller' = IF r.raised THEN "failed" ELSE "constructed"
    /\ devices' = <<>>
    /\ monitoring_active' = FALSE
    /\ UNCHANGED <<clock, lp, dsc, held>>
    /\ UNCHANGED <<sweepVars, classifyVars, persistVars, pingVars,
                   notifyVars, envVars, scanVars>>

\* startup from any configuration file, then the monitor
InitStartup ==
    /\ RegistryInit /\ SweepIdle /\ ClassifyIdle /\ PersistIdle /\ PingIdle
    /\ ConfigInit
    /\ NotifyIdle /\ EnvIdle /\ ScanIdle

StartupNext ==
    \/ Construct
    \/ Tick
    \/ StartMonitoring(Loops)
    \/ StopMonitoring
    \/ \E l \in Loops : LoopStep(l)

SpecStartup == InitStartup /\ [][StartupNext]_vars

\* startup from any configuration file, then one monitoring loop and
\* discover_network: the two writers of the registry under either setting of
\* alert_on_new_devices
AlertNext ==
    \/ Construct
    \/ Tick
    \/ StartMonitoring({1})
    \/ StopMonitoring
    \/ LoopStep(1)
    \/ DiscoverCall
    \/ DiscoverSweep
    \/ DiscoverScan
    \/ DiscoverStore
    \/ DiscoverReturn(FALSE)

SpecAlert == InitStartup /\ [][AlertNext]_vars

\* the monitor alone: start_monitoring, stop_monitoring and the loop
\* threads.  A started thread keeps being scheduled, and every probe, sweep,
\* scan and sleep of the loop ends (each has a timeout), so a loop thread
\* that can take a step eventually takes one.
MonitorNext ==
    \/ Tick
    \/ StartMonitoring(Loops)
    \/ StopMonitoring
    \/ \E l \in Loops : LoopStep(l)

SpecMonitor ==
    Init /\ [][MonitorNext]_vars /\ \A l \in Loops : WF_vars(LoopStep(l))

\* one monitoring loop on a network whose devices come and go.  The loop
\* thread keeps being scheduled and each of its steps ends, so it eventually
\* takes a step when it can; a sweep and a fingerprinting that are tried
\* again and again do not raise every time.
InitLive ==
    /\ RegistryInit /\ SweepIdle /\ ClassifyIdle /\ PersistIdle
    /\ PingIdle /\ ConfigQuiet /\ NotifyIdle /\ EnvInit /\ ScanIdle

LiveNext ==
    \/ Tick
    \/ Flip
    \/ StartMonitoring({1})
    \/ StopMonitoring
    \/ LiveStep(1)

SpecLive ==
    /\ InitLive /\ [][LiveNext]_vars
    /\ WF_vars(LiveStep(1))
    /\ SF_vars(LiveSweep(1))
    /\ SF_vars(LoopScan(1))

\* two concurrent calls of _ping_sweep
InitSweep ==
    /\ SweepInit /\ ClassifyIdle /\ RegistryIdle /\ PersistIdle
    /\ PingIdle /\ ConfigIdle
    /\ NotifyIdle /\ EnvIdle /\ ScanIdle

SpecSweep == InitSweep /\ [][SweepNext]_vars

\* calls of _ping, one per address, each address with its own outcome of
\* the two strategies
InitPing ==
    /\ PingInit /\ SweepIdle /\ ClassifyIdle /\ RegistryIdle /\ PersistIdle
    /\ ConfigIdle
    /\ NotifyIdle /\ EnvIdle /\ ScanIdle

SpecPing == InitPing /\ [][PingNext]_vars

\* calls of _detect_device_type
InitClassify ==
    /\ ClassifyInit /\ SweepIdle /\ RegistryIdle /\ PersistIdle
    /\ PingIdle /\ ConfigIdle
    /\ NotifyIdle /\ EnvIdle /\ ScanIdle

SpecClassify == InitClassify /\ [][Classify]_vars

\* calls of _scan_device, each with its own outcome of every step
InitScan ==
    /\ ScanInit /\ SweepIdle /\ ClassifyIdle /\ RegistryIdle /\ PersistIdle
    /\ PingIdle /\ ConfigIdle /\ NotifyIdle /\ EnvIdle

SpecScan == InitScan /\ [][ScanCall]_vars

(***************************************************************************)
(* Claims about _ping_sweep (checked under SpecSweep)                      *)
(***************************************************************************)
Returned(s) == swPc[s] = "returned"

\* C1: when a sweep returns, every address of the range has been probed, and
\* an address is in the returned list if and only if _ping returned True for
\* it during that sweep; before the return, the list holds only addresses
\* whose probe returned True.
C1_SweepExact ==
    \A s \in SweepIds :
        /\ \A a \in Range(active_hosts[s]) : pingRes[s][a] = "T"
        /\ Returned(s) =>
              \A a \in Network :
                  /\ pingRes[s][a] # "none"
                  /\ (a \in Range(active_hosts[s])) <=> (pingRes[s][a] = "T")

\* a serial sweep (max_threads = 1) has returned over a mix of responsive
\* and unresponsive hosts, an unresponsive one probed before a responsive one
C1_Witness ==
    \E s \in SweepIds :
        /\ Returned(s)
        /\ max_threads = 1
        /\ \E a, b \in Network :
              a < b /\ pingRes[s][a] = "F" /\ pingRes[s][b] = "T"
                    /\ b \in Range(active_hosts[s])

\* C2: for a fixed outcome of the probe per address (reach), the returned
\* list of every sweep has no address twice and its set of addresses is
\* {a : reach[a]}, whatever the interleaving of the probe threads and
\* whatever max_threads.
C2_SweepDeterministic ==
    \A s \in SweepIds :
        Returned(s) =>
            /\ NoDuplicates(active_hosts[s])
            /\ Range(active_hosts[s]) = {a \in Network : reach[a]}

\* two sweeps over the same outcomes returned their hosts in different
\* orders: the probes completed in different orders
C2_Witness ==
    /\ \A s \in SweepIds : Returned(s)
    /\ Len(active_hosts["discover"]) >= 2
    /\ active_hosts["discover"] # active_hosts["monitor"]

\* C3: at every moment the number of ping_host threads started and not yet
\* finished, over all running sweeps, is at most max_threads.
C3_GlobalCap ==
    Cardinality(InFlight("discover")) + Cardinality(InFlight("monitor"))
        <= max_threads

\* C4: when _ping_sweep has returned, every thread it started has finished:
\* none is still probing or about to append to the returned list.
C4_ReturnAfterAllDone ==
    \A s \in SweepIds :
        Returned(s) =>
            \A a \in Network : thr[s][a] = "done"

\* a sweep that needed more than one batch has returned
C4_Witness ==
    \E s \in SweepIds :
        /\ Returned(s)
        /\ max_threads < NumAddrs
        /\ Len(threads[s]) < NumAddrs
        /\ Len(active_hosts[s]) >= 1

(***************************************************************************)
(* Claims about _detect_device_type (checked under SpecClassify)           *)
(***************************************************************************)
PortSet(info) == Range(info.open_ports)

\* some field of some services entry contains the word, ignoring case
ServiceMentions(info, word) ==
    \E k \in DOMAIN info.services :
        \E f \in {"name", "product", "version"} :
            Contains(word, Lower(info.services[k][f]))

\* the classification rules as stated, on the set of open ports
StatedDeviceType(info) ==
    LET P == PortSet(info)
    IN  IF /\ P \cap {80, 443, 8080} # {}
           /\ \/ ServiceMentions(info, <<"r", "o", "u", "t", "e", "r">>)
              \/ ServiceMentions(info, <<"g", "a", "t", "e", "w", "a", "y">>)
          THEN "router"
        ELSE IF P \cap {22, 3389} # {} THEN "server"
        ELSE IF P \cap {631, 9100} # {} THEN "printer"
        ELSE IF Cardinality(P) <= 3 /\ P \cap {80, 443} # {} THEN "iot_device"
        ELSE "computer"

\* C5: the value returned by _detect_device_type is the one the stated rules
\* give, first match wins, and depends on open_ports and services alone;
\* ports {22,80} without a router-like service give server, ports {80}
\* without services strings give iot_device.
C5_Classification ==
    device_type # "unset" =>
        /\ device_type = StatedDeviceType(device_info)
        /\ device_type = StatedDeviceType(
               [open_ports |-> device_info.open_ports,
                services |-> device_info.services])
        /\ (PortSet(device_info) = {22, 80}
              /\ ~RouterLike(device_info.services)) => device_type = "server"
        /\ (PortSet(device_info) = {80}
              /\ ~RouterLike(device_info.services)) => device_type = "iot_device"

\* ports {22, 80} with a router-like service have been classified: the
\* router rule comes before the server rule
C5_Witness ==
    /\ device_type = "router"
    /\ PortSet(device_info) = {22, 80}

(***************************************************************************)
(* Claims about the registry (checked under Spec, SpecReader, SpecPersist) *)
(***************************************************************************)
\* C6: a key of self.devices stays a key in every step of the monitoring
\* loops and of discover_network.
C6_NeverDeleted == [][DOMAIN devices \subseteq DOMAIN devices']_vars

\* every address is known, one of them marked offline by a loop that is
\* still running, while discover_network is about to store a record
C6_Witness ==
    /\ DOMAIN devices = Subnet
    /\ \E a \in Subnet : devices[a].status = "offline"
    /\ \E l \in Loops : lp[l].pc = "sweep"
    /\ dsc.pc = "store"

UpdatePhase == {"probe", "wlast", "wstat", "woff"}

\* C7: when a loop's re-probe of an address has failed and the record is
\* online, the loop's write makes it offline and keeps the key (one change);
\* the loop changes a status from online to offline only in that write for
\* the address it has just probed, and within one pass of
\* _update_device_status an address that was probed is not probed again (no
\* further such change in that cycle).
C7_OfflineOnce ==
    [][\A l \in Loops :
        /\ (lp[l].pc = "woff" /\ lp'[l].pc # "woff") =>
              /\ lp[l].ip \in DOMAIN devices'
              /\ devices[lp[l].ip].status = "online"
                    => devices'[lp[l].ip].status = "offline"
              /\ lp[l].ip \notin lp'[l].todo
        /\ lp'[l] # lp[l] =>
              \A a \in DOMAIN devices :
                  (/\ a \in DOMAIN devices'
                   /\ devices[a].status = "online"
                   /\ devices'[a].status = "offline")
                  => (lp[l].pc = "woff" /\ lp[l].ip = a)
        /\ (lp[l].pc \in UpdatePhase /\ lp'[l].pc \in UpdatePhase) =>
              lp'[l].todo \subseteq lp[l].todo
      ]_vars

\* a loop is about to write the failed re-probe of an online device, with
\* another known device still to probe in this cycle
C7_Witness ==
    \E l \in Loops :
        /\ lp[l].pc = "woff"
        /\ devices[lp[l].ip].status = "online"
        /\ lp[l].todo # {}

\* C8: what a reader holds (the list of get_device_list, the mapping
\* returned by discover_network) reads the same after every step of the
\* monitoring loop taken while the reader holds it.
C8_PointInTime ==
    [][(held.kind # "none" /\ held'.kind = held.kind /\ lp' # lp)
          => HeldView' = HeldView]_vars

\* C9: writing to a known address the record, or the status and last_seen,
\* that it already has leaves the registry as it is: no status change, no
\* other change.
C9_ReapplyNoOp ==
    [][/\ (/\ dsc.pc = "store" /\ dsc'.pc # "store"
           /\ dsc.host \in DOMAIN devices
           /\ devices[dsc.host] = dsc.info) => devices' = devices
       /\ \A l \in Loops :
            /\ (/\ lp[l].pc = "store" /\ lp'[l].pc # "store"
                /\ lp[l].ip \in DOMAIN devices
                /\ devices[lp[l].ip] = lp[l].info) => devices' = devices
            /\ (/\ lp[l].pc = "woff" /\ lp'[l].pc # "woff"
                /\ lp[l].ip \in DOMAIN devices
                /\ devices[lp[l].ip].status = "offline") => devices' = devices
            /\ (/\ lp[l].pc = "wlast" /\ lp'[l].pc # "wlast"
                /\ lp[l].ip \in DOMAIN devices
                /\ devices[lp[l].ip].last_seen = clock) => devices' = devices
            /\ (/\ lp[l].pc = "wstat" /\ lp'[l].pc # "wstat"
                /\ lp[l].ip \in DOMAIN devices
                /\ devices[lp[l].ip].status = "online") => devices' = devices
      ]_vars

\* discover_network is about to store, for a known address, a record equal
\* to the one the registry has, and the registry has another record too
C9_Witness ==
    /\ dsc.pc = "store"
    /\ DOMAIN devices = Subnet
    /\ devices[dsc.host] = dsc.info

\* C10: after save_device_database and then load_device_database the
\* registry equals the registry that was saved.
C10_RoundTrip == persist_pc = "loaded" => devices = saved

\* C11: load_device_database on a path where no file exists returns
\* normally, without raising, and leaves the registry as it was: the empty
\* registry when the controller has discovered nothing yet.
C11_LoadMissingKeeps ==
    [][(~file.exists /\ ~file'.exists /\ persist_pc' # persist_pc)
         => (persist_pc' = "notfound" /\ devices' = devices)]_vars

\* the call was made on a fresh controller and returned: the registry is
\* the empty starting registry
C11_Witness == persist_pc = "notfound" /\ devices = <<>>

\* C11 as stated: after a load from a missing file the registry is empty,
\* whatever it held before the call
C11_LoadMissingEmpty == persist_pc = "notfound" => devices = <<>>

(***************************************************************************)
(* Claims about the monitor                                                *)
(***************************************************************************)
AllExited == \A l \in Loops : lp[l].pc = "none"

\* C12: the monitor is Running exactly while monitoring_active is set:
\* only start_monitoring sets the flag (and starts a loop thread), and a
\* stop_monitoring step clears it and touches nothing else, so that a probe
\* or write in flight goes on.  While the flag is clear no loop thread
\* starts another iteration, and unless start_monitoring is called again
\* every loop thread terminates.
C12_StopObserved ==
    /\ [][/\ (~monitoring_active /\ monitoring_active')
               => \E l \in Loops : lp[l].pc = "none" /\ lp'[l].pc = "test"
          /\ (monitoring_active /\ ~monitoring_active')
               => (lp' = lp /\ devices' = devices)
          /\ ~monitoring_active
               => \A l \in Loops :
                     ~(lp[l].pc = "test" /\ lp'[l].pc = "probe")
         ]_vars
    /\ (~monitoring_active) ~> (monitoring_active \/ AllExited)

\* stop_monitoring was called while a loop thread was in the middle of its
\* re-probes, with a write still to do
C12_Witness ==
    /\ ~monitoring_active
    /\ \E l \in Loops : lp[l].pc = "wlast" /\ lp[l].todo # {}

\* C13: an error raised inside a monitoring iteration is caught and does not
\* end the loop: from the handler the thread goes back to the test of the
\* flag, a loop thread ends only when it finds the flag cleared, and the
\* flag is cleared by stop_monitoring and by nothing else.
C13_ErrorsCaught ==
    [][/\ (monitoring_active /\ ~monitoring_active') => StopMonitoring
       /\ \A l \in Loops :
            /\ lp[l].pc = "except" => lp'[l].pc \in {"except", "test"}
            /\ (lp[l].pc # "none" /\ lp'[l].pc = "none")
                  => (lp[l].pc = "test" /\ ~monitoring_active)
      ]_vars

\* a loop thread is in the handler of an error while the monitor is Running
C13_Witness ==
    monitoring_active /\ \E l \in Loops : lp[l].pc = "except"

\* C14: whatever the sequence of start_monitoring and stop_monitoring calls,
\* at most one monitoring loop thread is inside an iteration at any time.
C14_SingleLoop ==
    Cardinality({l \in Loops : lp[l].pc \notin {"none", "test"}}) <= 1

(***************************************************************************)
(* Claims about _ping (checked under SpecPing)                             *)
(***************************************************************************)
\* a strategy that was tried met a positive answer: the ping command ended
\* with return code 0, or, the fallback being available, scapy got a reply
PositiveAnswer(h) ==
    \/ probe[h].sub = "rc0"
    \/ scapy_available /\ probe[h].icmp = "reply"

\* C15: _ping lets no error out: it returns True when one of the strategies
\* (the ping command, then the ICMP fallback when available) has a positive
\* answer, and False otherwise, whatever timeout or error a strategy met.
C15_PingBestEffort ==
    \A h \in Subnet :
        ping_result[h] # "unset" =>
            /\ ping_result[h] \in {"True", "False"}
            /\ ping_result[h] = "True" <=> PositiveAnswer(h)

\* the ping command timed out, the fallback raised, and _ping returned
\* False; for another address the command failed and the fallback's reply
\* made _ping return True
C15_Witness ==
    /\ scapy_available
    /\ \E h \in Subnet :
          /\ probe[h].sub = "timeout" /\ probe[h].icmp = "error"
          /\ ping_result[h] = "False"
    /\ \E h \in Subnet :
          /\ probe[h].sub = "oserror" /\ probe[h].icmp = "reply"
          /\ ping_result[h] = "True"

(***************************************************************************)
(* Claims about concurrent writers of the registry                         *)
(***************************************************************************)
\* C16: a record that is online has as last_seen the time of the most recent
\* successful probe of its address.  The time of the most recent successful
\* probe never goes back, so the last_seen of a record that is online before
\* and after a step must not go back either.
C16_LastSeenCurrent ==
    [][\A a \in DOMAIN devices :
          (devices[a].status = "online" /\ devices'[a].status = "online")
             => devices'[a].last_seen >= devices[a].last_seen]_vars

\* C17: writes of concurrent threads do not corrupt the registry.  A write
\* for one address leaves the records of the other addresses present and as
\* they were.  Writers of the same address are serialized: while the monitor
\* holds the result of a failed probe of an address and has not yet written
\* it, no other thread replaces the record of that address (the write of
\* "offline" that follows would put the status of the older probe on the
\* record of a newer one).
C17_WritersSerialized ==
    [][/\ DOMAIN devices \subseteq DOMAIN devices'
       /\ \A a, b \in DOMAIN devices :
            (devices'[a] # devices[a] /\ devices'[b] # devices[b]) => a = b
       /\ \A l \in Loops :
            (lp[l].pc = "woff" /\ lp'[l] = lp[l])
               => devices'[lp[l].ip] = devices[lp[l].ip]
      ]_vars

(***************************************************************************)
(* Claims about startup (checked under SpecStartup)                        *)
(***************************************************************************)
\* C18: construction with no configuration file writes the default
\* configuration to the file and uses it; construction with a malformed
\* file fails, and after a failed construction no monitor ever runs.
C18_ConfigLoad ==
    /\ [][(controller = "none" /\ controller' # "none") =>
            /\ ~config_file.exists =>
                  /\ controller' = "constructed"
                  /\ config' = DefaultConfig
                  /\ config_file' = ConfigText(DefaultConfig)
                  /\ config'.default_subnet = "192.168.1.0/24"
                  /\ config'.monitoring_interval = 60
                  /\ config'.max_threads = 50
                  /\ config'.security_settings.alert_on_new_devices
            /\ (config_file.exists /\ ~config_file.valid) =>
                  /\ controller' = "failed"
                  /\ config_file' = config_file
         ]_vars
    /\ [](controller = "failed" =>
             /\ ~monitoring_active
             /\ \A l \in Loops : lp[l].pc = "none")

\* the file was missing (no file of ConfigFiles holds the defaults), the
\* controller was constructed with the defaults and its monitor is running
C18_Witness ==
    /\ controller = "constructed"
    /\ config = DefaultConfig
    /\ monitoring_active
    /\ \E l \in Loops : lp[l].pc = "sleep"

(***************************************************************************)
(* Claims about the monitor's re-probe                                     *)
(***************************************************************************)
\* C19: an iteration takes the addresses that are in the registry when it
\* starts and probes each of them once.  When the update of an address after
\* a successful probe is complete, the record is online and its last_seen is
\* not older than the time the update wrote; after a failed probe the record
\* is offline.
C19_ReprobeAll ==
    [][\A l \in Loops :
          /\ (lp[l].pc = "test" /\ lp'[l].pc = "probe")
                => lp'[l].todo = DOMAIN devices
          /\ (lp[l].pc = "probe" /\ lp'[l].pc \in {"wlast", "woff"})
                => /\ lp'[l].ip \in lp[l].todo
                   /\ lp'[l].todo = lp[l].todo \ {lp'[l].ip}
          /\ (lp[l].pc = "probe" /\ lp'[l].pc = "sweep") => lp[l].todo = {}
          /\ (lp[l].pc = "wstat" /\ lp'[l].pc = "probe")
                => /\ devices'[lp[l].ip].status = "online"
                   /\ devices'[lp[l].ip].last_seen >= lp[l].stamp
          /\ (lp[l].pc = "woff" /\ lp'[l].pc = "probe")
                => devices'[lp[l].ip].status = "offline"
      ]_vars

\* C20: the re-probe of a known address writes nothing but status and
\* last_seen.  The probe itself writes nothing; after a failure the only
\* write sets the status of that record; after a success one write sets its
\* last_seen and one sets its status.  Every other field of the record and
\* every other record are as they were.
C20_ReprobeFrame ==
    [][\A l \in Loops :
          /\ (lp[l].pc = "probe" /\ lp'[l].pc # "probe") => devices' = devices
          /\ (lp[l].pc = "woff" /\ lp'[l].pc # "woff")
                => devices' = [devices EXCEPT ![lp[l].ip].status = "offline"]
          /\ (lp[l].pc = "wlast" /\ lp'[l].pc # "wlast")
                => devices' = [devices EXCEPT ![lp[l].ip].last_seen =
                                               devices'[lp[l].ip].last_seen]
          /\ (lp[l].pc = "wstat" /\ lp'[l].pc # "wstat")
                => devices' = [devices EXCEPT ![lp[l].ip].status = "online"]
      ]_vars

\* a loop thread is about to write last_seen after a successful probe of an
\* offline record that has a hostname, ports and services, and the registry
\* holds another record too
C20_Witness ==
    \E l \in Loops :
        /\ lp[l].pc = "wlast"
        /\ devices[lp[l].ip].status = "offline"
        /\ devices[lp[l].ip].open_ports # <<>>
        /\ Cardinality(DOMAIN devices) = 2

\* C21: step 2 of a monitoring iteration (_check_new_devices).  The
\* addresses to insert are the ones the sweep found reachable minus the ones
\* that were keys of the registry when the step took its set of known
\* addresses; each of them, and nothing else, is fingerprinted in full and
\* stored as an online record, every other record staying as it was; the step
\* ends normally only when none is left.  So an address that was known when
\* the step began is neither fingerprinted again nor replaced by it.
C21_NewDevicesInserted ==
    [][\A l \in Loops :
          /\ (lp[l].pc = "diff" /\ lp'[l].pc # "diff")
                => lp'[l].new_devices =
                       lp[l].discovered \ lp[l].current_devices
          /\ (lp[l].pc = "scan" /\ lp'[l].pc = "store")
                => /\ lp'[l].ip \in lp[l].new_devices
                   /\ lp'[l].new_devices = lp[l].new_devices \ {lp'[l].ip}
                   /\ lp'[l].info =
                          _scan_device(lp'[l].ip, ScanOf(lp'[l].ip), clock)
                   /\ devices' = devices
          /\ (lp[l].pc = "store" /\ lp'[l].pc # "store")
                => /\ DOMAIN devices' = DOMAIN devices \cup {lp[l].ip}
                   /\ devices'[lp[l].ip] = lp[l].info
                   /\ devices'[lp[l].ip].status = "online"
                   /\ \A a \in DOMAIN devices \ {lp[l].ip} :
                         devices'[a] = devices[a]
                   /\ lp'[l].new_devices = lp[l].new_devices
          /\ (lp[l].pc = "scan" /\ lp'[l].pc = "sleep")
                => lp[l].new_devices = {}
      ]_vars

\* a loop thread, having taken the difference and fingerprinted its last new
\* address, is about to insert it next to the record of a known one
C21_Witness ==
    \E l \in Loops :
        /\ lp[l].pc = "store"
        /\ lp[l].ip \notin DOMAIN devices
        /\ lp[l].info.status = "online"
        /\ lp[l].new_devices = {}
        /\ DOMAIN devices # {}

\* C22: alerts.  When a loop thread inserts a new device, _send_alert is
\* called once for that address if security_settings.alert_on_new_devices is
\* true and not at all if it is false; no other step of the program (a status
\* written by the re-probe, an insertion by discover_network, a start or a
\* stop) sends an alert.
C22_AlertPerInsertion ==
    [][/\ \A l \in Loops :
             (lp[l].pc = "store" /\ lp'[l].pc # "store")
                => alerts' =
                     IF config.security_settings.alert_on_new_devices
                       THEN [alerts EXCEPT ![lp[l].ip] = alerts[lp[l].ip] + 1]
                       ELSE alerts
       /\ (\A l \in Loops : ~(lp[l].pc = "store" /\ lp'[l].pc # "store"))
             => alerts' = alerts
      ]_vars

\* with the alerts on, the monitor inserted one device and alerted once for
\* it, while the registry holds another device, for which no alert was sent
C22_Witness ==
    /\ Constructed
    /\ config.security_settings.alert_on_new_devices
    /\ \E a, b \in DOMAIN devices : alerts[a] = 1 /\ alerts[b] = 0

\* C23: new-device detection compares against every known address, online
\* or offline.  The set of known addresses that _check_new_devices takes is
\* the whole key set of the registry; no address of that set, whatever the
\* status of its record, is among the new devices, which are the only ones
\* that are reported, fingerprinted, stored and alerted for.  A success of
\* the re-probe on an offline record sets its status back to online and
\* leaves its fingerprint as it was.
C23_OfflineStaysKnown ==
    [][\A l \in Loops :
          /\ (lp[l].pc = "probe" /\ lp'[l].pc = "sweep")
                => lp'[l].current_devices = DOMAIN devices
          /\ (lp[l].pc = "diff" /\ lp'[l].pc # "diff")
                => \A a \in lp[l].current_devices :
                       a \notin lp'[l].new_devices
          /\ (lp[l].pc = "scan" /\ lp'[l].pc = "store")
                => lp'[l].ip \in lp[l].new_devices
          /\ (lp[l].pc = "store" /\ lp'[l].pc # "store")
                => \A a \in Subnet \ {lp[l].ip} :
                       /\ alerts'[a] = alerts[a]
                       /\ a \in DOMAIN devices
                             => (a \in DOMAIN devices' /\ devices'[a] = devices[a])
          /\ (lp[l].pc = "wstat" /\ lp'[l].pc # "wstat"
                /\ devices[lp[l].ip].status = "offline")
                => devices' = [devices EXCEPT ![lp[l].ip].status = "online"]
      ]_vars

\* a loop thread is about to take the difference: its sweep found an
\* address reachable that is in its set of known addresses and whose record
\* says offline
C23_Witness ==
    \E l \in Loops :
        /\ lp[l].pc = "diff"
        /\ \E a \in lp[l].discovered \cap lp[l].current_devices :
              /\ a \in DOMAIN devices
              /\ devices[a].status = "offline"

\* C24: one iteration per monitoring_interval.  A loop thread comes back to
\* the test of `while self.monitoring_active` only from the end of
\* time.sleep(monitoring_interval), also when the iteration met an error, and
\* inside an iteration the re-probe of the known devices comes before the
\* sweep for new ones.
C24_WaitEveryIteration ==
    [][\A l \in Loops :
          /\ (lp'[l].pc = "test" /\ lp[l].pc \notin {"test", "none"})
                => lp[l].pc = "sleep"
          /\ (lp'[l].pc = "probe" /\ lp[l].pc \notin {"probe", "wstat", "woff"})
                => lp[l].pc = "test"
          /\ (lp'[l].pc = "sweep" /\ lp[l].pc # "sweep")
                => (lp[l].pc = "probe" /\ lp[l].todo = {})
      ]_vars

\* C25: _scan_device is best effort.  Whatever its steps meet, the call
\* returns a record: the hostname is empty when the reverse lookup raised,
\* the MAC address is empty when the ARP request raised, got no answer or
\* scapy is missing, the ports and services are empty when nmap is missing,
\* refuses to scan or does not list the host, and are exactly the open ports
\* handled before the failure when reading the result raised; the device
\* type is the classification of that partial record, the status is online
\* and last_seen is the time of the call.
C25_ScanBestEffort ==
    scan_out.done =>
        LET e == scan_env
            info == scan_out.info
        IN  /\ ~scan_out.raised
            /\ info.ip = e.host
            /\ e.dns = "raises" => info.hostname = <<>>
            /\ e.arp # "answers" => info.mac_address = <<>>
            /\ e.nmap \in {"unavailable", "refuses", "absent"}
                  => /\ info.open_ports = <<>>
                     /\ info.services = <<>>
                     /\ info.os_guess = <<>>
            /\ e.nmap = "breaks"
                  => /\ \A i \in 1..Len(ScannedPorts) :
                           ScannedPorts[i] \in Range(info.open_ports)
                              <=> (i <= e.fail_at
                                     /\ e.state[ScannedPorts[i]] = "open")
                     /\ info.os_guess = <<>>
            /\ DOMAIN info.services =
                   {<<"int", q>> : q \in Range(info.open_ports)}
            /\ info.device_type = _detect_device_type(info)
            /\ info.status = "online"
            /\ info.last_seen = e.now

\* a call where both lookups raised and reading the nmap result raised after
\* two ports: the record that came back has no hostname and no MAC address,
\* keeps port 22, lacks port 443 that was open but not reached, and is
\* classified from port 22 alone
C25_Witness ==
    /\ scan_out.done
    /\ scan_env.dns = "raises"
    /\ scan_env.arp = "raises"
    /\ scan_env.nmap = "breaks"
    /\ scan_env.fail_at = 2
    /\ scan_env.state[22] = "open"
    /\ scan_env.state[443] = "open"
    /\ scan_out.info.open_ports = <<22>>
    /\ scan_out.info.device_type = "server"

\* the monitor is Running: the flag is set and the loop thread is alive
Running == monitoring_active /\ lp[1].pc # "none"

\* C26: liveness of the monitor.  While the monitor stays Running and its
\* thread is scheduled fairly: a known device that is unreachable is
\* eventually marked offline unless it becomes reachable again; a known
\* device that is reachable is eventually marked online unless it becomes
\* unreachable again; an unknown address of the subnet that is reachable is
\* eventually inserted unless it stops being reachable.
C26_Liveness ==
    \A a \in Subnet :
        /\ (Running /\ a \in DOMAIN devices /\ ~up[a])
              ~> \/ (a \in DOMAIN devices /\ devices[a].status = "offline")
                 \/ up[a]
                 \/ ~Running
        /\ (Running /\ a \in DOMAIN devices /\ up[a])
              ~> \/ (a \in DOMAIN devices /\ devices[a].status = "online")
                 \/ ~up[a]
                 \/ ~Running
        /\ (Running /\ a \notin DOMAIN devices /\ up[a])
              ~> \/ a \in DOMAIN devices
                 \/ ~up[a]
                 \/ ~Running

\* the monitor is running; it inserted two devices, one of which left the
\* network and was marked offline, while the other is up and online
C26_Witness ==
    /\ Running
    /\ \E a, b \in DOMAIN devices :
          /\ ~up[a] /\ devices[a].status = "offline"
          /\ up[b] /\ devices[b].status = "online"

\* C27: the monitor inserts only what is absent.  When a loop thread writes
\* the record of a new device, the registry has no record for that address
\* at that moment, and an alert is sent only for an address that the
\* registry does not hold yet: a record that discover_network inserted in the
\* meantime is neither overwritten nor reported as new.
C27_InsertOnlyAbsent ==
    [][/\ \A l \in Loops :
             (lp[l].pc = "store" /\ lp'[l].pc # "store")
                => lp[l].ip \notin DOMAIN devices
       /\ \A a \in Subnet :
             alerts'[a] # alerts[a] => a \notin DOMAIN devices
      ]_vars

\* C28: what discover_network writes.  It fingerprints only addresses that
\* its own sweep returned, and each of its writes puts the fresh fingerprint,
\* status online, under that address and leaves every other record as it
\* was: none is removed, none is marked offline.  Its other steps write
\* nothing.  What it returns is the registry itself, with every known device.
C28_DiscoverFrame ==
    [][/\ (dsc.pc = "scan" /\ dsc'.pc = "store")
             => /\ dsc'.host \in dsc.hosts
                /\ dsc'.hosts = dsc.hosts \ {dsc'.host}
                /\ dsc'.info = _scan_device(dsc'.host, ScanOf(dsc'.host), clock)
       /\ (dsc.pc = "store" /\ dsc'.pc # "store")
             => /\ DOMAIN devices' = DOMAIN devices \cup {dsc.host}
                /\ devices'[dsc.host] = dsc.info
                /\ devices'[dsc.host].status = "online"
                /\ \A a \in DOMAIN devices \ {dsc.host} :
                      devices'[a] = devices[a]
       /\ (dsc' # dsc /\ dsc.pc # "store") => devices' = devices
       /\ (dsc.pc = "return" /\ dsc'.pc # "return" /\ held' # held)
             => /\ held'.kind = "dict"
                /\ HeldView' = devices'
                /\ DOMAIN HeldView' = DOMAIN devices
      ]_vars

\* discover_network is about to replace the record of an address that
\* answered its sweep, while the registry holds the record of another
\* address, marked offline, that is not among those it has yet to write
C28_Witness ==
    /\ dsc.pc = "store"
    /\ dsc.host \in DOMAIN devices
    /\ \E a \in DOMAIN devices \ ({dsc.host} \cup dsc.hosts) :
          devices[a].status = "offline"

====
